---- MODULE Spec2Model ----
(***************************************************************************)
(* Model of the notification migrator: main (src/main.go) opens one        *)
(* transaction on the source and one on the destination database, calls    *)
(* runMigration (src/migration.go), which runs migrateUsers,               *)
(* migrateNotificationTypes and migrateNotifications in that order, and    *)
(* commits the destination transaction when runMigration returned nil.     *)
(*                                                                         *)
(* Every database statement of the program is one step.  A statement may   *)
(* fail in the database (connection lost, constraint violated): that is a  *)
(* choice of the environment, taken with \E ok \in BOOLEAN.                *)
(***************************************************************************)
EXTENDS Integers, Sequences, FiniteSets, TLC

VARIABLES
    srcUsers,     \* source table users: rows [id, username]
    srcNotifs,    \* source table notifications
    before,       \* the destination tables as they were when the run started
    committed,    \* the destination tables as other sessions see them
    tx,           \* the destination tables as destTx sees them
    pc,           \* the statement the program executes next
    values,       \* the rows added to the bulk insert builder (stages 1 and 2)
    notificationTypeIDFor,  \* map built by getNotificationTypeIDMap
    userIDFor,    \* map built by getUserIDMap
    sourceRows,   \* the rows the stage 3 cursor has not delivered yet
    log,          \* the database statements issued so far, in order
    err,          \* the chain of messages of the error that ended the run
    result        \* "none" while running, then "ok", "error" or "panic"

vars == <<srcUsers, srcNotifs, before, committed, tx, pc, values,
          notificationTypeIDFor, userIDFor, sourceRows, log, err, result>>

(***************************************************************************)
(* Bounds of the model.                                                    *)
(***************************************************************************)
MaxNotifs == 2   \* at most this many rows in the source notifications table

(***************************************************************************)
(* Go and SQL values.                                                      *)
(***************************************************************************)
\* The value a Go map[string]string yields for a missing key: "".
\* Identities are modelled as tuples, the empty string as the empty tuple.
ZeroID == <<>>

\* The identity the destination assigns to a row inserted into users or
\* notification_types (an opaque value, one per table and natural key).
NewID(table, key) == <<table, key>>

\* SQL lower() on the type strings of the model.
lower(s) ==
    CASE s = "Info" -> "info"
      [] s = "DATA" -> "data"
      [] OTHER -> s

RECURSIVE SetToSeqs(_)
\* All the orders in which the rows of a set can be delivered.
SetToSeqs(S) ==
    IF S = {} THEN {<<>>}
    ELSE UNION {{<<x>> \o q : q \in SetToSeqs(S \ {x})} : x \in S}

SeqToSet(q) == {q[i] : i \in 1..Len(q)}

(***************************************************************************)
(* JSON.  The message column holds JSON text; the texts of the model are   *)
(* written out below.  A JSON value is [t, v]: t is its kind and v its     *)
(* content (the characters of a string, the digits of a number, the        *)
(* members of an object as a function from keys to values).                *)
(***************************************************************************)
Str(s)  == [t |-> "str", v |-> s]
Num(d)  == [t |-> "num", v |-> d]
Obj(f)  == [t |-> "obj", v |-> f]
Arr(d)  == [t |-> "arr", v |-> d]
Null    == [t |-> "null", v |-> "null"]
\* A Go float64, named by the decimal digits of its exact value.
F64(d)  == [t |-> "float64", v |-> d]

M_plain      == "{\"message\":{\"text\":\"hi\"}}"
M_hasId      == "{\"message\":{\"text\":\"hi\",\"id\":\"old\"}}"
M_bigNum     == "{\"message\":{\"n\":9007199254740993}}"
M_extra      == "{\"message\":{\"n\":42},\"subject\":\"s\"}"
M_noMessage  == "{\"text\":\"hi\"}"
M_strMessage == "{\"message\":\"hi\"}"
M_nullMessage == "{\"message\":null}"
M_null       == "null"
M_array      == "[1]"
M_notJSON    == "not json"

\* The JSON value a text denotes, numbers kept exactly; valid is FALSE for a
\* text that is not JSON.
JSONValue(text) ==
    CASE text = M_plain ->
           [valid |-> TRUE, v |-> Obj([message |-> Obj([text |-> Str("hi")])])]
      [] text = M_hasId ->
           [valid |-> TRUE,
            v |-> Obj([message |-> Obj([text |-> Str("hi"), id |-> Str("old")])])]
      [] text = M_bigNum ->
           [valid |-> TRUE,
            v |-> Obj([message |-> Obj([n |-> Num("9007199254740993")])])]
      [] text = M_extra ->
           [valid |-> TRUE,
            v |-> Obj([message |-> Obj([n |-> Num("42")]), subject |-> Str("s")])]
      [] text = M_noMessage ->
           [valid |-> TRUE, v |-> Obj([text |-> Str("hi")])]
      [] text = M_strMessage ->
           [valid |-> TRUE, v |-> Obj([message |-> Str("hi")])]
      [] text = M_nullMessage ->
           [valid |-> TRUE, v |-> Obj([message |-> Null])]
      [] text = M_null ->
           [valid |-> TRUE, v |-> Null]
      [] text = M_array ->
           [valid |-> TRUE, v |-> Arr("[1]")]
      [] OTHER ->
           [valid |-> FALSE, v |-> Null]

\* strconv.ParseFloat(d, 64) followed by the digits of the result: the float64
\* nearest to the number.  Integers up to 2^53 are exact; 2^53 + 1 lies between
\* two float64 values and rounds to the even one, 2^53.
Float64(d) ==
    IF d = "9007199254740993" THEN "9007199254740992" ELSE d

RECURSIVE ToInterface(_)
\* The Go value encoding/json stores into an interface{}: a JSON object becomes
\* a map[string]interface{}, a number a float64, null a nil interface.
ToInterface(j) ==
    CASE j.t = "obj" -> Obj([k \in DOMAIN j.v |-> ToInterface(j.v[k])])
      [] j.t = "num" -> F64(Float64(j.v))
      [] OTHER -> j

\* json.Unmarshal([]byte(message), &outgoing) with outgoing a
\* map[string]interface{}: an error for text that is not JSON and for a value
\* that is neither an object nor null; null leaves outgoing the nil map.
Unmarshal(message) ==
    LET j == JSONValue(message) IN
    CASE ~j.valid -> [err |-> TRUE, isNil |-> TRUE, map |-> Null]
      [] j.v.t = "null" -> [err |-> FALSE, isNil |-> TRUE, map |-> Null]
      [] j.v.t = "obj" -> [err |-> FALSE, isNil |-> FALSE, map |-> ToInterface(j.v)]
      [] OTHER -> [err |-> TRUE, isNil |-> TRUE, map |-> Null]

RECURSIVE Marshal(_)
\* json.Marshal of a value built by Unmarshal: a float64 is written with the
\* fewest digits that read back as the same float64.
Marshal(g) ==
    CASE g.t = "obj" -> Obj([k \in DOMAIN g.v |-> Marshal(g.v[k])])
      [] g.t = "float64" -> Num(g.v)
      [] OTHER -> g

\* outgoing["message"]: the zero value (a nil interface) when the map is nil
\* or has no such key.
Index(u, key) ==
    IF ~u.isNil /\ key \in DOMAIN u.map.v THEN u.map.v[key] ELSE Null

\* The type assertion x.(map[string]interface{}) panics unless x holds a map.
AssertionPanics(x) == x.t # "obj"

\* outgoing["message"].(map[string]interface{})["id"] = id
SetMessageID(u, id) ==
    LET inner == u.map.v["message"].v
        inner2 == [k \in DOMAIN inner \cup {"id"} |->
                      IF k = "id" THEN Str(id) ELSE inner[k]]
    IN Obj([k \in DOMAIN u.map.v |->
               IF k = "message" THEN Obj(inner2) ELSE u.map.v[k]])

\* Lines 283-293 of migrateNotifications: the outgoing version of a message.
\* kind is "ok" (json holds outgoingJSON), "error" (an error is returned) or
\* "panic" (the type assertion panics).
outgoingJSON(id, message) ==
    LET u == Unmarshal(message) IN
    CASE u.err -> [kind |-> "error", json |-> Null]
      [] AssertionPanics(Index(u, "message")) -> [kind |-> "panic", json |-> Null]
      [] OTHER -> [kind |-> "ok", json |-> Marshal(SetMessageID(u, id))]


(***************************************************************************)
(* The databases.                                                          *)
(***************************************************************************)
Alice == [id |-> 1, username |-> "alice"]
Bob   == [id |-> 2, username |-> "bob"]
UserPool == {Alice, Bob}

Notif(uuid, type, user_id, date_created, message) ==
    [uuid |-> uuid, type |-> type, user_id |-> user_id, subject |-> "subj",
     seen |-> "false", deleted |-> "false", date_created |-> date_created,
     message |-> message]

\* The source notifications of the model: every shape of message, types that
\* differ only in case, equal and different creation times, both users.
NotifPool ==
    { Notif("n1", "Info", 1, 2, M_plain),
      Notif("n2", "info", 1, 1, M_hasId),
      Notif("n3", "DATA", 2, 1, M_bigNum),
      Notif("n4", "Info", 2, 3, M_extra),
      Notif("n5", "DATA", 1, 2, M_noMessage),
      Notif("n6", "info", 2, 2, M_strMessage),
      Notif("n7", "Info", 1, 1, M_notJSON),
      Notif("n8", "DATA", 2, 3, M_null),
      Notif("n9", "info", 1, 3, M_array),
      Notif("n10", "Info", 2, 1, M_nullMessage) }

\* Rows a destination table may hold before the run.
OldUser  == [id |-> NewID("users", "old"), username |-> "old"]
OldType  == [id |-> NewID("notification_types", "old"), name |-> "old"]
OldNotif == [id |-> "n0", notification_type_id |-> OldType.id,
             user_id |-> OldUser.id, subject |-> "subj", seen |-> "false",
             deleted |-> "false", time_created |-> 0,
             incoming_json |-> M_plain,
             outgoing_json |-> Obj([message |-> Obj([text |-> Str("hi"),
                                                     id |-> Str("n0")])])]

Tables(u, t, n) == [users |-> u, notification_types |-> t, notifications |-> n]

\* The destination before the run: each table empty or holding a row.
DestStates ==
    { Tables(u, t, n) : u \in {{}, {OldUser}}, t \in {{}, {OldType}},
                        n \in {<<>>, <<OldNotif>>} }

(***************************************************************************)
(* Errors.  An error is the chain of its messages, outermost first; nil is *)
(* the empty chain.                                                        *)
(***************************************************************************)
nil == <<>>
DBError == "database error"

\* errors.Wrap(e, msg)
Wrap(e, msg) == <<msg>> \o e

\* A statement issued against a database: the function that issued it, the
\* number of rows of an insert, and whether the database executed it.
Stmt(fn, db, op, table, n, ok) ==
    [fn |-> fn, db |-> db, op |-> op, table |-> table, n |-> n, ok |-> ok]

\* Exit1 as it would be if main committed destTx on its way out.
Exit1Committing(e) ==
    /\ pc' = "exit"
    /\ result' = "error"
    /\ err' = e
    /\ committed' = tx

\* main, lines 110-113 and 117-120: print the error and os.Exit(1).  The
\* process ends with destTx open, so the server rolls it back.
Exit1(e) ==
    /\ pc' = "exit"
    /\ result' = "error"
    /\ err' = e
    /\ committed' = committed

\* An unrecovered panic: the deferred destTx.Rollback() of main runs and the
\* runtime ends the process with exit code 2.
Panic ==
    /\ pc' = "exit"
    /\ result' = "panic"
    /\ err' = nil
    /\ committed' = committed

\* The exit code of the process.
ExitCode ==
    CASE result = "ok" -> 0
      [] result = "error" -> 1
      [] result = "panic" -> 2
      [] OTHER -> -1

(***************************************************************************)
(* Stage 1: migrateUsers.                                                  *)
(***************************************************************************)
\* The error runMigration returns for the error e of a stage.
runMigrationErr(e) == Wrap(e, "database migration failed")

\* squirrel's InsertBuilder.ToSql: an insert without rows is an error.
ToSqlMessage == "insert statements must have at least one set of values or select clause"
ToSql(vals) == IF vals = {} THEN <<ToSqlMessage>> ELSE nil

validateDestinationUsersTable(ok) ==
    IF ~ok
    THEN Wrap(<<DBError>>, "unable to verify that the destination users table is empty")
    ELSE IF Cardinality(tx.users) > 0
         THEN <<"the destination users table is not empty">>
         ELSE nil

migrateUsersErr(e) == Wrap(e, "user migration failed")

\* Lines 35-39.
migrateUsers_validate ==
    /\ pc = "users_validate"
    /\ \E ok \in BOOLEAN :
         LET e == validateDestinationUsersTable(ok) IN
         /\ log' = Append(log, Stmt("migrateUsers", "dest", "count", "users", 0, ok))
         /\ IF e # nil
            THEN Exit1(runMigrationErr(migrateUsersErr(e)))
            ELSE /\ pc' = "users_query"
                 /\ UNCHANGED <<result, err, committed>>
    /\ UNCHANGED <<srcUsers, srcNotifs, before, tx, values,
                   notificationTypeIDFor, userIDFor, sourceRows>>

\* SELECT username FROM users
selectUsernames(users) == {u.username : u \in users}

\* Lines 41-61: the query and the loop that adds every username to the builder.
migrateUsers_query ==
    /\ pc = "users_query"
    /\ \E ok \in BOOLEAN :
         /\ log' = Append(log, Stmt("migrateUsers", "source", "select", "users", 0, ok))
         /\ IF ~ok
            THEN /\ Exit1(runMigrationErr(migrateUsersErr(<<DBError>>)))
                 /\ UNCHANGED values
            ELSE /\ values' = selectUsernames(srcUsers)
                 /\ pc' = "users_exec"
                 /\ UNCHANGED <<result, err, committed>>
    /\ UNCHANGED <<srcUsers, srcNotifs, before, tx,
                   notificationTypeIDFor, userIDFor, sourceRows>>

\* INSERT INTO users (username) VALUES ...: the destination assigns the ids.
insertUsers(t, vals) ==
    [t EXCEPT !.users = @ \cup {[id |-> NewID("users", u), username |-> u] : u \in vals}]

\* Lines 63-75.
migrateUsers_exec ==
    /\ pc = "users_exec"
    /\ IF ToSql(values) # nil
       THEN /\ Exit1(runMigrationErr(migrateUsersErr(ToSql(values))))
            /\ UNCHANGED <<tx, log>>
       ELSE \E ok \in BOOLEAN :
              /\ log' = Append(log, Stmt("migrateUsers", "dest", "insert", "users",
                                         Cardinality(values), ok))
              /\ IF ~ok
                 THEN /\ Exit1(runMigrationErr(migrateUsersErr(<<DBError>>)))
                      /\ UNCHANGED tx
                 ELSE /\ tx' = insertUsers(tx, values)
                      /\ pc' = "types_validate"
                      /\ UNCHANGED <<result, err, committed>>
    /\ UNCHANGED <<srcUsers, srcNotifs, before, values,
                   notificationTypeIDFor, userIDFor, sourceRows>>

(***************************************************************************)
(* Stage 2: migrateNotificationTypes.                                      *)
(***************************************************************************)
\* validateDestinationNotificationTypesTable without the test of the count.
validateNotificationTypesUnchecked(ok) ==
    IF ~ok
    THEN Wrap(<<DBError>>, "unable to validate the destination notification_types table")
    ELSE nil

validateDestinationNotificationTypesTable(ok) ==
    IF ~ok
    THEN Wrap(<<DBError>>, "unable to validate the destination notification_types table")
    ELSE IF Cardinality(tx.notification_types) > 0
         THEN <<"the destination notification_types table is not empty">>
         ELSE nil

\* migrateNotificationTypesErr with the wrap message of migrateUsers.
migrateNotificationTypesErrAsUsers(e) == Wrap(e, "user migration failed")

migrateNotificationTypesErr(e) == Wrap(e, "notification type migration failed")

\* Lines 101-105.
migrateNotificationTypes_validate ==
    /\ pc = "types_validate"
    /\ \E ok \in BOOLEAN :
         LET e == validateDestinationNotificationTypesTable(ok) IN
         /\ log' = Append(log, Stmt("migrateNotificationTypes", "dest", "count",
                                    "notification_types", 0, ok))
         /\ IF e # nil
            THEN Exit1(runMigrationErr(migrateNotificationTypesErr(e)))
            ELSE /\ pc' = "types_query"
                 /\ UNCHANGED <<result, err, committed>>
    /\ UNCHANGED <<srcUsers, srcNotifs, before, tx, values,
                   notificationTypeIDFor, userIDFor, sourceRows>>

\* selectDistinctTypes without lower(): SELECT DISTINCT type FROM notifications
selectDistinctRawTypes(notifs) == {n.type : n \in notifs}

\* SELECT DISTINCT lower(type) FROM notifications
selectDistinctTypes(notifs) == {lower(n.type) : n \in notifs}

\* Lines 107-127.
migrateNotificationTypes_query ==
    /\ pc = "types_query"
    /\ \E ok \in BOOLEAN :
         /\ log' = Append(log, Stmt("migrateNotificationTypes", "source", "select",
                                    "notifications", 0, ok))
         /\ IF ~ok
            THEN /\ Exit1(runMigrationErr(migrateNotificationTypesErr(<<DBError>>)))
                 /\ UNCHANGED values
            ELSE /\ values' = selectDistinctTypes(srcNotifs)
                 /\ pc' = "types_exec"
                 /\ UNCHANGED <<result, err, committed>>
    /\ UNCHANGED <<srcUsers, srcNotifs, before, tx,
                   notificationTypeIDFor, userIDFor, sourceRows>>

\* INSERT INTO notification_types (name) VALUES ...
insertNotificationTypes(t, vals) ==
    [t EXCEPT !.notification_types =
        @ \cup {[id |-> NewID("notification_types", v), name |-> v] : v \in vals}]

\* Lines 129-141.
migrateNotificationTypes_exec ==
    /\ pc = "types_exec"
    /\ IF ToSql(values) # nil
       THEN /\ Exit1(runMigrationErr(migrateNotificationTypesErr(ToSql(values))))
            /\ UNCHANGED <<tx, log>>
       ELSE \E ok \in BOOLEAN :
              /\ log' = Append(log, Stmt("migrateNotificationTypes", "dest", "insert",
                                         "notification_types", Cardinality(values), ok))
              /\ IF ~ok
                 THEN /\ Exit1(runMigrationErr(migrateNotificationTypesErr(<<DBError>>)))
                      /\ UNCHANGED tx
                 ELSE /\ tx' = insertNotificationTypes(tx, values)
                      /\ pc' = "notifs_validate"
                      /\ UNCHANGED <<result, err, committed>>
    /\ UNCHANGED <<srcUsers, srcNotifs, before, values,
                   notificationTypeIDFor, userIDFor, sourceRows>>

(***************************************************************************)
(* Stage 3: migrateNotifications.                                          *)
(***************************************************************************)
validateDestinationNotificationsTable(ok) ==
    IF ~ok
    THEN Wrap(<<DBError>>, "unable to validate the destination notifications table")
    ELSE IF Len(tx.notifications) > 0
         THEN <<"the destination notifictions table is not empty">>
         ELSE nil

migrateNotificationsErr(e) == Wrap(e, "notification migration failed")

\* Lines 217-221.
migrateNotifications_validate ==
    /\ pc = "notifs_validate"
    /\ \E ok \in BOOLEAN :
         LET e == validateDestinationNotificationsTable(ok) IN
         /\ log' = Append(log, Stmt("migrateNotifications", "dest", "count",
                                    "notifications", 0, ok))
         /\ IF e # nil
            THEN Exit1(runMigrationErr(migrateNotificationsErr(e)))
            ELSE /\ pc' = "notifs_typemap"
                 /\ UNCHANGED <<result, err, committed>>
    /\ UNCHANGED <<srcUsers, srcNotifs, before, tx, values,
                   notificationTypeIDFor, userIDFor, sourceRows>>

\* getNotificationTypeIDMap, lines 174-185: result[name] = id for every row.
getNotificationTypeIDMap(rows) ==
    [name \in {r.name : r \in rows} |-> (CHOOSE r \in rows : r.name = name).id]

\* getUserIDMap, lines 199-210: result[username] = id for every row.
getUserIDMap(rows) ==
    [username \in {r.username : r \in rows} |->
        (CHOOSE r \in rows : r.username = username).id]

\* Lines 223-227.
migrateNotifications_typemap ==
    /\ pc = "notifs_typemap"
    /\ \E ok \in BOOLEAN :
         /\ log' = Append(log, Stmt("migrateNotifications", "dest", "select",
                                    "notification_types", 0, ok))
         /\ IF ~ok
            THEN /\ Exit1(runMigrationErr(migrateNotificationsErr(
                       Wrap(<<DBError>>, "unable to load the notification type ID map"))))
                 /\ UNCHANGED notificationTypeIDFor
            ELSE /\ notificationTypeIDFor' = getNotificationTypeIDMap(tx.notification_types)
                 /\ pc' = "notifs_usermap"
                 /\ UNCHANGED <<result, err, committed>>
    /\ UNCHANGED <<srcUsers, srcNotifs, before, tx, values, userIDFor, sourceRows>>

\* Lines 229-233.
migrateNotifications_usermap ==
    /\ pc = "notifs_usermap"
    /\ \E ok \in BOOLEAN :
         /\ log' = Append(log, Stmt("migrateNotifications", "dest", "select", "users", 0, ok))
         /\ IF ~ok
            THEN /\ Exit1(runMigrationErr(migrateNotificationsErr(
                       Wrap(<<DBError>>, "unable to laod the user ID map"))))
                 /\ UNCHANGED userIDFor
            ELSE /\ userIDFor' = getUserIDMap(tx.users)
                 /\ pc' = "notifs_query"
                 /\ UNCHANGED <<result, err, committed>>
    /\ UNCHANGED <<srcUsers, srcNotifs, before, tx, values,
                   notificationTypeIDFor, sourceRows>>

\* selectRow without lower(): the type is selected as stored.
selectRowRawType(n, u) ==
    [uuid |-> n.uuid, type |-> n.type, username |-> u.username,
     subject |-> n.subject, seen |-> n.seen, deleted |-> n.deleted,
     date_created |-> n.date_created, message |-> n.message]

\* The select list of sourceQuery for notification n joined to user u.
selectRow(n, u) ==
    [uuid |-> n.uuid, type |-> lower(n.type), username |-> u.username,
     subject |-> n.subject, seen |-> n.seen, deleted |-> n.deleted,
     date_created |-> n.date_created, message |-> n.message]

\* FROM notifications n JOIN users u ON n.user_id = u.id
joinUsers(notifs, users) ==
    {selectRow(n, u) : <<n, u>> \in {p \in notifs \X users : p[1].user_id = p[2].id}}

\* orderByDateCreated without the ORDER BY clause: the rows in any order.
unordered(rows) == SetToSeqs(rows)

\* ORDER BY n.date_created: any order of the rows in which no row comes
\* before a row created earlier (rows created at the same time come in any order).
orderByDateCreated(rows) ==
    {q \in SetToSeqs(rows) :
        \A i, j \in 1..Len(q) : i < j => q[i].date_created <= q[j].date_created}

\* Lines 235-253.
migrateNotifications_query ==
    /\ pc = "notifs_query"
    /\ \E ok \in BOOLEAN :
         /\ log' = Append(log, Stmt("migrateNotifications", "source", "select",
                                    "notifications", 0, ok))
         /\ IF ~ok
            THEN /\ Exit1(runMigrationErr(migrateNotificationsErr(<<DBError>>)))
                 /\ UNCHANGED sourceRows
            ELSE /\ sourceRows' \in orderByDateCreated(joinUsers(srcNotifs, srcUsers))
                 /\ pc' = "notifs_row"
                 /\ UNCHANGED <<result, err, committed>>
    /\ UNCHANGED <<srcUsers, srcNotifs, before, tx, values,
                   notificationTypeIDFor, userIDFor>>

\* m[key] on a Go map[string]string: the zero value for a missing key.
lookup(m, key) == IF key \in DOMAIN m THEN m[key] ELSE ZeroID

\* Lines 280-281 and 296-306: the row handed to the insert statement.
insertRow(row, out) ==
    [id |-> row.uuid,
     notification_type_id |-> lookup(notificationTypeIDFor, row.type),
     user_id |-> lookup(userIDFor, row.username),
     subject |-> row.subject, seen |-> row.seen, deleted |-> row.deleted,
     time_created |-> row.date_created,
     incoming_json |-> row.message,
     outgoing_json |-> out]

\* Lines 272-319: one turn of the loop, or the return after the last row.
migrateNotifications_row ==
    /\ pc = "notifs_row"
    /\ IF sourceRows = <<>>
       THEN /\ pc' = "commit"
            /\ UNCHANGED <<result, err, committed, tx, log, sourceRows>>
       ELSE LET row == Head(sourceRows)
                out == outgoingJSON(row.uuid, row.message)
            IN
            /\ sourceRows' = Tail(sourceRows)
            /\ CASE out.kind = "error" ->
                      /\ Exit1(runMigrationErr(migrateNotificationsErr(<<"json error">>)))
                      /\ UNCHANGED <<tx, log>>
                 [] out.kind = "panic" ->
                      /\ Panic
                      /\ UNCHANGED <<tx, log>>
                 [] OTHER ->
                      \E ok \in BOOLEAN :
                        /\ log' = Append(log, Stmt("migrateNotifications", "dest",
                                                   "insert", "notifications", 1, ok))
                        /\ IF ~ok
                           THEN /\ Exit1(runMigrationErr(migrateNotificationsErr(<<DBError>>)))
                                /\ UNCHANGED tx
                           ELSE /\ tx' = [tx EXCEPT !.notifications =
                                             Append(@, insertRow(row, out.json))]
                                /\ UNCHANGED <<pc, result, err, committed>>
    /\ UNCHANGED <<srcUsers, srcNotifs, before, values,
                   notificationTypeIDFor, userIDFor>>

(***************************************************************************)
(* main, after runMigration returned nil.                                  *)
(***************************************************************************)
\* Lines 115-121: destTx.Commit().
main_commit ==
    /\ pc = "commit"
    /\ \E ok \in BOOLEAN :
         /\ log' = Append(log, Stmt("main", "dest", "commit", "", 0, ok))
         /\ IF ~ok
            THEN Exit1(<<"destination database commit failed", DBError>>)
            ELSE /\ committed' = tx
                 /\ pc' = "exit"
                 /\ result' = "ok"
                 /\ err' = nil
    /\ UNCHANGED <<srcUsers, srcNotifs, before, tx, values,
                   notificationTypeIDFor, userIDFor, sourceRows>>

(***************************************************************************)
(* The run of main: both transactions are open, runMigration is called.    *)
(***************************************************************************)
SourceNotifs == {S \in SUBSET NotifPool : Cardinality(S) <= MaxNotifs}

Init ==
    /\ srcUsers \in SUBSET UserPool
    /\ srcNotifs \in SourceNotifs
    /\ before \in DestStates
    /\ committed = before
    /\ tx = before
    /\ pc = "users_validate"
    /\ values = {}
    /\ notificationTypeIDFor = <<>>
    /\ userIDFor = <<>>
    /\ sourceRows = <<>>
    /\ log = <<>>
    /\ err = nil
    /\ result = "none"

Next ==
    \/ migrateUsers_validate
    \/ migrateUsers_query
    \/ migrateUsers_exec
    \/ migrateNotificationTypes_validate
    \/ migrateNotificationTypes_query
    \/ migrateNotificationTypes_exec
    \/ migrateNotifications_validate
    \/ migrateNotifications_typemap
    \/ migrateNotifications_usermap
    \/ migrateNotifications_query
    \/ migrateNotifications_row
    \/ main_commit

Spec == Init /\ [][Next]_vars

(***************************************************************************)
(* migrateNotifications on its own: the function applied to transactions   *)
(* whose destination users and notification_types tables hold any of the   *)
(* rows the first two stages can insert.                                   *)
(***************************************************************************)
DestUsers == {[id |-> NewID("users", u.username), username |-> u.username] : u \in UserPool}
DestTypes == {[id |-> NewID("notification_types", v), name |-> v] : v \in {"info", "data"}}

InitNotif ==
    /\ srcUsers \in SUBSET UserPool
    /\ srcNotifs \in SourceNotifs
    /\ before \in {Tables(u, t, n) : u \in SUBSET DestUsers, t \in SUBSET DestTypes,
                                     n \in {<<>>, <<OldNotif>>}}
    /\ committed = before
    /\ tx = before
    /\ pc = "notifs_validate"
    /\ values = {}
    /\ notificationTypeIDFor = <<>>
    /\ userIDFor = <<>>
    /\ sourceRows = <<>>
    /\ log = <<>>
    /\ err = nil
    /\ result = "none"

NextNotif ==
    \/ migrateNotifications_validate
    \/ migrateNotifications_typemap
    \/ migrateNotifications_usermap
    \/ migrateNotifications_query
    \/ migrateNotifications_row

SpecNotif == InitNotif /\ [][NextNotif]_vars

(***************************************************************************)
(* Properties.                                                             *)
(***************************************************************************)
Statements == {log[i] : i \in 1..Len(log)}
\* The inserts the destination executed.
Inserts == {st \in Statements : st.op = "insert" /\ st.ok}
EmptyDest == Tables({}, {}, <<>>)

\* The stage that migrates a destination table, and the stage of a function.
StageOfTable(table) ==
    CASE table = "users" -> 1
      [] table = "notification_types" -> 2
      [] OTHER -> 3
StageOfFn(fn) ==
    CASE fn = "migrateUsers" -> 1
      [] fn = "migrateNotificationTypes" -> 2
      [] fn = "migrateNotifications" -> 3
      [] OTHER -> 4
StageMessage(fn) ==
    CASE fn = "migrateUsers" -> "user migration failed"
      [] fn = "migrateNotificationTypes" -> "notification type migration failed"
      [] OTHER -> "notification migration failed"
NonEmptyTables(t) ==
    {name \in {"users", "notification_types"} : t[name] # {}}
        \cup (IF t.notifications # <<>> THEN {"notifications"} ELSE {})

\* C1: the destination transaction is committed only when no stage returned
\* an error: a commit is attempted only after the last stage returned nil, and
\* until a commit has succeeded (while the run is under way, and after a run
\* that ended in an error, a failed commit or a panic) the destination tables
\* are what they were before the run; after a successful commit they are what
\* the transaction wrote.
C1_AllOrNothing ==
    /\ result # "ok" => committed = before
    /\ result = "ok" => committed = tx /\ err = nil
    /\ (\E st \in Statements : st.op = "commit") =>
          /\ sourceRows = <<>>
          /\ \A i \in 1..Len(err) : err[i] # "database migration failed"

\* A run that failed after it had written rows: the rows are not visible.
C1_Witness ==
    /\ result = "error"
    /\ tx # before
    /\ Len(tx.notifications) > 0
    /\ committed = before

\* C2 as stated: with a destination table non-empty at the start, the run
\* ends in an error and no insert at all is executed against the destination.
C2_Original ==
    NonEmptyTables(before) # {} =>
        /\ Inserts = {}
        /\ pc = "exit" => result = "error" /\ committed = before

\* C2, amended: with a destination table non-empty at the start, the run ends
\* in an error, no insert is executed into that table or into the table of a
\* later stage, no commit is attempted, and the destination is left unchanged.
C2_Amended ==
    \A name \in NonEmptyTables(before) :
        /\ \A st \in Inserts : StageOfTable(st.table) < StageOfTable(name)
        /\ \A st \in Statements : st.op # "commit"
        /\ committed = before
        /\ pc = "exit" => result = "error"

\* Only notification_types was non-empty: the users insert was executed and
\* the run then failed in stage 2.
C2_Witness ==
    /\ NonEmptyTables(before) = {"notification_types"}
    /\ \E st \in Inserts : st.table = "users"
    /\ result = "error"
    /\ err = <<"database migration failed", "notification type migration failed",
               "the destination notification_types table is not empty">>

\* C3: zero source rows are a successful no-op: a run on an empty source and
\* an empty destination in which no database statement fails ends in success
\* with three empty destination tables.
C3_ZeroRowsNoOp ==
    ( /\ srcUsers = {}
      /\ srcNotifs = {}
      /\ before = EmptyDest
      /\ pc = "exit"
      /\ DBError \notin SeqToSet(err) )
    => /\ result = "ok"
       /\ committed = EmptyDest

\* The payload C4 describes: message with the key "id" inside "message" set
\* to id and nothing else changed.
WithMessageID(j, id) ==
    Obj([k \in DOMAIN j.v |->
           IF k = "message"
           THEN Obj([f \in DOMAIN j.v[k].v \cup {"id"} |->
                       IF f = "id" THEN Str(id) ELSE j.v[k].v[f]])
           ELSE j.v[k]])

\* C4: every inserted notification stores the source message unmodified as
\* its incoming payload, and as its outgoing payload the incoming payload
\* with "id" inside "message" set to the notification's identity, every
\* other key and value the same.
C4_OutgoingIsIncomingPlusID ==
    \A i \in 1..Len(tx.notifications) :
        LET row == tx.notifications[i]
            j == JSONValue(row.incoming_json)
        IN row # OldNotif =>
             /\ \E n \in srcNotifs : n.uuid = row.id /\ n.message = row.incoming_json
             /\ j.valid
             /\ row.outgoing_json = WithMessageID(j.v, row.id)

\* C5: migrateNotifications never inserts a notification whose
\* notification_type_id or user_id is the empty value: a key missing from a
\* dictionary ends the stage in an error before the row is inserted.
C5_UnresolvedKeyIsFatal ==
    \A i \in 1..Len(tx.notifications) :
        /\ tx.notifications[i].notification_type_id # ZeroID
        /\ tx.notifications[i].user_id # ZeroID

\* C6: a malformed payload ends the run in a returned error that names the
\* notification and in exit code 1, never in a panic.
C6_MalformedPayloadIsError ==
    /\ result # "panic"
    /\ "json error" \in SeqToSet(err) => ExitCode = 1
    /\ "json error" \in SeqToSet(err) =>
          \E n \in srcNotifs : n.uuid \in SeqToSet(err)

\* C7: after a successful run every notification references a
\* notification_types row and a users row inserted in this run.
C7_NoDanglingReferences ==
    result = "ok" =>
        \A i \in 1..Len(committed.notifications) :
            LET row == committed.notifications[i] IN
            /\ \E t \in committed.notification_types \ before.notification_types :
                   /\ t.id = row.notification_type_id
                   /\ \E n \in srcNotifs : n.uuid = row.id /\ lower(n.type) = t.name
            /\ \E u \in committed.users \ before.users :
                   /\ u.id = row.user_id
                   /\ \E n \in srcNotifs, su \in srcUsers :
                         n.uuid = row.id /\ su.id = n.user_id /\ su.username = u.username

\* A successful run that migrated two notifications of different users.
C7_Witness ==
    /\ result = "ok"
    /\ Len(committed.notifications) = 2
    /\ committed.notifications[1].user_id # committed.notifications[2].user_id

\* C8 as stated: after a successful run the notifications table has one row
\* for every source notification, matched by a source user or not.
C8_Original ==
    result = "ok" =>
        /\ Cardinality(committed.users) = Cardinality({u.username : u \in srcUsers})
        /\ Cardinality(committed.notification_types)
              = Cardinality({lower(n.type) : n \in srcNotifs})
        /\ Len(committed.notifications) = Cardinality(srcNotifs)

\* The source notifications whose user_id matches a source user row.
Matched == {n \in srcNotifs : \E u \in srcUsers : u.id = n.user_id}

\* C8, amended: after a successful run the notifications table has one row
\* for every source notification whose user_id matches a source user row.
C8_Amended ==
    result = "ok" =>
        /\ Cardinality(committed.users) = Cardinality({u.username : u \in srcUsers})
        /\ Cardinality(committed.notification_types)
              = Cardinality({lower(n.type) : n \in srcNotifs})
        /\ Len(committed.notifications) = Cardinality(Matched)
        /\ {committed.notifications[i].id : i \in 1..Len(committed.notifications)}
              = {n.uuid : n \in Matched}

\* A successful run whose source held a notification of no source user and
\* two types that differ only in case.
C8_Witness ==
    /\ result = "ok"
    /\ Matched # srcNotifs
    /\ Len(committed.notifications) = 1
    /\ Cardinality(committed.notification_types) = 1
    /\ Cardinality(srcNotifs) = 2

\* C9: the notifications are inserted in non-decreasing date_created order,
\* each by an insert statement of its own.
C9_InsertOrder ==
    /\ \A i, j \in 1..Len(tx.notifications) :
          i < j => tx.notifications[i].time_created <= tx.notifications[j].time_created
    /\ \A st \in Inserts : st.table = "notifications" => st.n = 1
    /\ \A i \in 1..Len(tx.notifications) :
          tx.notifications[i] # OldNotif =>
             \E n \in srcNotifs : /\ n.uuid = tx.notifications[i].id
                                  /\ n.date_created = tx.notifications[i].time_created

\* Two notifications created at different times were inserted.
C9_Witness ==
    /\ Len(tx.notifications) = 2
    /\ tx.notifications[1].time_created < tx.notifications[2].time_created

\* C10: the statements are issued stage by stage in the order users,
\* notification types, notifications; a stage issues its first statement only
\* after the insert of the stage before it succeeded; no statement but the
\* row insert of stage 3 is issued twice; and the error of a failed stage is
\* "database migration failed" wrapping the message of the stage that issued
\* the last statement.
C10_StageOrder ==
    /\ \A i, j \in 1..Len(log) : i < j => StageOfFn(log[i].fn) <= StageOfFn(log[j].fn)
    /\ \A i, j \in 1..Len(log) :
          (i < j /\ [log[i] EXCEPT !.ok = TRUE] = [log[j] EXCEPT !.ok = TRUE])
              => (log[i].fn = "migrateNotifications" /\ log[i].op = "insert")
    /\ (\E st \in Statements : StageOfFn(st.fn) >= 2) =>
          /\ \E st \in Inserts : st.table = "users"
          /\ {u.username : u \in tx.users} = {u.username : u \in srcUsers}
    /\ (\E st \in Statements : StageOfFn(st.fn) >= 3) =>
          /\ \E st \in Inserts : st.table = "notification_types"
          /\ {t.name : t \in tx.notification_types} = {lower(n.type) : n \in srcNotifs}
    /\ (result = "error" /\ log[Len(log)].fn # "main") =>
          /\ Len(err) >= 3
          /\ err[1] = "database migration failed"
          /\ err[2] = StageMessage(log[Len(log)].fn)

\* Stage 2 failed after stage 1 had succeeded.
C10_Witness ==
    /\ result = "error"
    /\ Len(err) >= 2
    /\ err[2] = "notification type migration failed"
    /\ \E st \in Inserts : st.table = "users"
    /\ \A st \in Statements : StageOfFn(st.fn) <= 2

====
